---- MODULE Spec2Model ----
(***************************************************************************)
(* Stepper-motor controller (controleur-stepper.c, PIC18).                 *)
(*                                                                         *)
(* The model follows the source: the two commutation routines, the state   *)
(* machine machine(), the interrupt handler interruptionsHP() with its     *)
(* divide-by-26 step clock, and the tail of main() that enables the        *)
(* interrupts and parks the motor.                                         *)
(*                                                                         *)
(* Specifications:                                                         *)
(*   Spec            the program: main's tail, the three interrupt flags   *)
(*                   raised by the hardware, the interrupt handler.        *)
(*   SpecMachine     machine() alone, driven by every sequence of the four *)
(*                   events of enum Evenement.                             *)
(*   SpecScenario    machine() driven by AVANCE followed by TICTACs only.  *)
(*   SpecCommutation the two commutation routines called with every        *)
(*                   position of 0..31.                                    *)
(*   SpecRegistres   machine() with each register write a step of its own. *)
(*   SpecMachineEquitable  SpecMachine with TICTAC never withheld for ever. *)
(*   SpecPreemption  the program with the handler run statement by         *)
(*                   statement, GIEH and the handler activations.          *)
(***************************************************************************)
EXTENDS Integers, Sequences, FiniteSets, TLC

VARIABLES
    etat,       \* machine(): static enum Etat etat
    pas,        \* machine(): static unsigned char pas
    n,          \* interruptionsHP(): static char n (the divider counter)
    CCPR3L,     \* PWM duty-cycle register
    PORTA,      \* bridge-select port
    TMR2IF,     \* PIR1bits.TMR2IF
    INT2IF,     \* INTCON3bits.INT2IF
    INT1IF,     \* INTCON3bits.INT1IF
    pcMain,     \* position of main(): "gieh", "porta", "dodo"
    pcCom,      \* SpecRegistres: <<>> or <<ev>>, the event whose commutation
                \* has written CCPR3L and not yet PORTA
    evts,       \* observer: events dispatched to machine() by the last step
    appels,     \* observer: commutation calls made by machine() in the last step
    journal,    \* observer: the last two commutation calls made by machine()
    pasFrein,   \* observer: pas when the last brake began, -1 when none
    ordre,      \* observer: <<ev>>, the opposite-direction command received
                \* while running, until another command is dispatched; else <<>>
    ticsFrein,  \* observer: number of TICTAC dispatched since the brake began
    gieh,       \* INTCONbits.GIEH
    pile,       \* SpecPreemption: positions of the handler activations in
                \* progress, the innermost last
    tirs,       \* observer: number of TMR2 interrupts handled (up to MaxTirs)
    fenetre,    \* observer: for the last 27 TMR2 interrupts handled, whether
                \* each dispatched TICTAC
    nbTics,     \* SpecScenario: number of TICTAC dispatched
    nbAppels    \* SpecScenario: number of commutation calls made

vars == <<etat, pas, n, CCPR3L, PORTA, TMR2IF, INT2IF, INT1IF, pcMain, pcCom,
          evts, appels, journal, pasFrein, ordre, ticsFrein, gieh, pile, tirs,
          fenetre, nbTics, nbAppels>>

(***************************************************************************)
(* Bounds of the model.                                                    *)
(***************************************************************************)
MaxTirs == 30

MaxTics == 100

\* TMR2 interrupts that can come while main() runs lines 283 to 287: TMR2
\* interrupts every 4 * 33 * 9 = 1188 instruction cycles (lines 245 to 247).
MaxTirsDemarrage == 2

(***************************************************************************)
(* enum Etat, enum Evenement.                                              *)
(***************************************************************************)
ARRET == "ARRET"

MARCHE_AVANT == "MARCHE_AVANT"

FREIN_AVANT == "FREIN_AVANT"

MARCHE_ARRIERE == "MARCHE_ARRIERE"

FREIN_ARRIERE == "FREIN_ARRIERE"

Etat == {ARRET, MARCHE_AVANT, FREIN_AVANT, MARCHE_ARRIERE, FREIN_ARRIERE}

AVANCE == "AVANCE"

RECULE == "RECULE"

ARRETE == "ARRETE"

TICTAC == "TICTAC"

Evenement == {AVANCE, RECULE, ARRETE, TICTAC}

(***************************************************************************)
(* The commutation routines.  A table read outside the table is undefined: *)
(* it yields any byte.                                                     *)
(***************************************************************************)
Octet == 0..255

commutateursStationnement == <<1, 4, 2, 8>>

cos == <<32, 31, 27, 22, 16, 10, 5, 1, 0, 1, 5, 10, 16, 22, 27, 31>>

commutateursDeplacement == <<5, 6, 10, 9>>

Lire(table, i) == IF i \in 0..(Len(table) - 1) THEN {table[i + 1]} ELSE Octet

\* CCPR3L = 16;
ccpr3lStationnement(p) == {16}

\* n = pas >> 3; PORTA = commutateursStationnement[n];
portaStationnement(p) == Lire(commutateursStationnement, p \div 8)

\* n = pas & 0x0F; CCPR3L = cos[n];
ccpr3lDeplacement(p) == Lire(cos, p % 16)

\* n = pas >> 3; PORTA = commutateursDeplacement[n];
portaDeplacementUnBit(p) == Lire(commutateursStationnement, p \div 8)

portaDeplacementDecale2(p) == Lire(commutateursDeplacement, p \div 4)

portaDeplacement(p) == Lire(commutateursDeplacement, p \div 8)

commutationStationnement(p) ==
    {[CCPR3L |-> a, PORTA |-> b] :
        a \in ccpr3lStationnement(p), b \in portaStationnement(p)}

commutationDeplacement(p) ==
    {[CCPR3L |-> a, PORTA |-> b] :
        a \in ccpr3lDeplacement(p), b \in portaDeplacement(p)}

(***************************************************************************)
(* machine().  Each Cas... is one case of switch(etat): the next etat and  *)
(* pas and the commutation call made, <<>> when none.  The call is made    *)
(* with pas as it is before the step.                                      *)
(***************************************************************************)
Stationnement(p) == <<[fn |-> "commutationStationnement", pas |-> p]>>

Deplacement(p) == <<[fn |-> "commutationDeplacement", pas |-> p]>>

\* pas++; if (pas > 31) pas = 0;   (unsigned char)
IncrementeDeDeux(p) == LET q == (p + 2) % 256 IN IF q > 31 THEN 0 ELSE q

IncrementeSansRetour(p) == (p + 1) % 256

Incremente(p) == LET q == (p + 1) % 256 IN IF q > 31 THEN 0 ELSE q

\* pas--; if (pas > 31) pas = 31;  (unsigned char: 0 - 1 = 255)
DecrementeSansRetour(p) == (p + 255) % 256

Decremente(p) == LET q == (p + 255) % 256 IN IF q > 31 THEN 31 ELSE q

\* case 0: case 8: case 16: case 24:
PasEntierTousLesQuatre(p) == p \in {0, 4, 8, 12, 16, 20, 24, 28}

PasEntier(p) == p \in {0, 8, 16, 24}

CasArretTictacCommute(p, ev) ==
    IF ev = AVANCE THEN [etat |-> MARCHE_AVANT, pas |-> p, appel |-> <<>>]
    ELSE IF ev = RECULE THEN [etat |-> MARCHE_ARRIERE, pas |-> p, appel |-> <<>>]
    ELSE IF ev = TICTAC THEN [etat |-> ARRET, pas |-> p, appel |-> Stationnement(p)]
    ELSE [etat |-> ARRET, pas |-> p, appel |-> <<>>]

CasArret(p, ev) ==
    IF ev = AVANCE THEN [etat |-> MARCHE_AVANT, pas |-> p, appel |-> <<>>]
    ELSE IF ev = RECULE THEN [etat |-> MARCHE_ARRIERE, pas |-> p, appel |-> <<>>]
    ELSE [etat |-> ARRET, pas |-> p, appel |-> <<>>]

CasMarcheAvantInverseAussitot(p, ev) ==
    IF ev = TICTAC
    THEN [etat |-> MARCHE_AVANT, pas |-> Incremente(p), appel |-> Deplacement(p)]
    ELSE IF ev = RECULE
    THEN [etat |-> MARCHE_ARRIERE, pas |-> p, appel |-> <<>>]
    ELSE IF ev = ARRETE
    THEN [etat |-> FREIN_AVANT, pas |-> p, appel |-> <<>>]
    ELSE [etat |-> MARCHE_AVANT, pas |-> p, appel |-> <<>>]

CasMarcheAvant(p, ev) ==
    IF ev = TICTAC
    THEN [etat |-> MARCHE_AVANT, pas |-> Incremente(p), appel |-> Deplacement(p)]
    ELSE IF ev \in {RECULE, ARRETE}
    THEN [etat |-> FREIN_AVANT, pas |-> p, appel |-> <<>>]
    ELSE [etat |-> MARCHE_AVANT, pas |-> p, appel |-> <<>>]

CasFreinAvantSansStationnement(p, ev) ==
    IF ev = TICTAC
    THEN IF PasEntier(p)
         THEN [etat |-> ARRET, pas |-> p, appel |-> <<>>]
         ELSE [etat |-> FREIN_AVANT, pas |-> Incremente(p), appel |-> Deplacement(p)]
    ELSE [etat |-> FREIN_AVANT, pas |-> p, appel |-> <<>>]

CasFreinAvantArreteAussitot(p, ev) ==
    IF ev = TICTAC
    THEN IF PasEntier(p)
         THEN [etat |-> ARRET, pas |-> p, appel |-> Stationnement(p)]
         ELSE [etat |-> FREIN_AVANT, pas |-> Incremente(p), appel |-> Deplacement(p)]
    ELSE IF ev = ARRETE
    THEN [etat |-> ARRET, pas |-> p, appel |-> Stationnement(p)]
    ELSE [etat |-> FREIN_AVANT, pas |-> p, appel |-> <<>>]

CasFreinAvantAvanceEncore(p, ev) ==
    IF ev = TICTAC
    THEN IF PasEntier(p)
         THEN [etat |-> ARRET, pas |-> Incremente(p), appel |-> Stationnement(p)]
         ELSE [etat |-> FREIN_AVANT, pas |-> Incremente(p), appel |-> Deplacement(p)]
    ELSE [etat |-> FREIN_AVANT, pas |-> p, appel |-> <<>>]

CasFreinAvant(p, ev) ==
    IF ev = TICTAC
    THEN IF PasEntier(p)
         THEN [etat |-> ARRET, pas |-> p, appel |-> Stationnement(p)]
         ELSE [etat |-> FREIN_AVANT, pas |-> Incremente(p), appel |-> Deplacement(p)]
    ELSE [etat |-> FREIN_AVANT, pas |-> p, appel |-> <<>>]

CasMarcheArriere(p, ev) ==
    IF ev = TICTAC
    THEN [etat |-> MARCHE_ARRIERE, pas |-> Decremente(p), appel |-> Deplacement(p)]
    ELSE IF ev \in {AVANCE, ARRETE}
    THEN [etat |-> FREIN_ARRIERE, pas |-> p, appel |-> <<>>]
    ELSE [etat |-> MARCHE_ARRIERE, pas |-> p, appel |-> <<>>]

CasFreinArriereAnnulable(p, ev) ==
    IF ev = TICTAC
    THEN IF PasEntier(p)
         THEN [etat |-> ARRET, pas |-> p, appel |-> Stationnement(p)]
         ELSE [etat |-> FREIN_ARRIERE, pas |-> Decremente(p), appel |-> Deplacement(p)]
    ELSE IF ev = RECULE
    THEN [etat |-> MARCHE_ARRIERE, pas |-> p, appel |-> <<>>]
    ELSE [etat |-> FREIN_ARRIERE, pas |-> p, appel |-> <<>>]

CasFreinArriereAvance(p, ev) ==
    IF ev = TICTAC
    THEN IF PasEntier(p)
         THEN [etat |-> ARRET, pas |-> p, appel |-> Stationnement(p)]
         ELSE [etat |-> FREIN_ARRIERE, pas |-> Incremente(p), appel |-> Deplacement(p)]
    ELSE [etat |-> FREIN_ARRIERE, pas |-> p, appel |-> <<>>]

CasFreinArriere(p, ev) ==
    IF ev = TICTAC
    THEN IF PasEntier(p)
         THEN [etat |-> ARRET, pas |-> p, appel |-> Stationnement(p)]
         ELSE [etat |-> FREIN_ARRIERE, pas |-> Decremente(p), appel |-> Deplacement(p)]
    ELSE [etat |-> FREIN_ARRIERE, pas |-> p, appel |-> <<>>]

\* switch(etat)
Transition(e, p, ev) ==
    CASE e = ARRET -> CasArret(p, ev)
      [] e = MARCHE_AVANT -> CasMarcheAvant(p, ev)
      [] e = FREIN_AVANT -> CasFreinAvant(p, ev)
      [] e = MARCHE_ARRIERE -> CasMarcheArriere(p, ev)
      [] e = FREIN_ARRIERE -> CasFreinArriere(p, ev)

\* The register values a commutation call leaves; no call leaves them as they are.
Sorties(appel, c, a) ==
    IF appel = <<>> THEN {[CCPR3L |-> c, PORTA |-> a]}
    ELSE IF appel[1].fn = "commutationStationnement"
    THEN commutationStationnement(appel[1].pas)
    ELSE commutationDeplacement(appel[1].pas)

DeuxDerniers(s) == IF Len(s) <= 2 THEN s ELSE SubSeq(s, Len(s) - 1, Len(s))

Freins == {FREIN_AVANT, FREIN_ARRIERE}

Marches == {MARCHE_AVANT, MARCHE_ARRIERE}

\* Observer of the brake: the position at which the brake state was entered,
\* kept until the motor runs again.
PasFreinSuivant(avant, apres, p, f) ==
    IF apres \in Freins /\ avant \notin Freins THEN p
    ELSE IF apres \in Marches THEN -1
    ELSE f

\* Observer of a reversal: the command opposite to the running direction,
\* standing until AVANCE, RECULE or ARRETE is dispatched again.
OrdreSuivant(avant, ev, o) ==
    IF ev = TICTAC THEN o
    ELSE IF \/ avant = MARCHE_AVANT /\ ev = RECULE
            \/ avant = MARCHE_ARRIERE /\ ev = AVANCE
    THEN <<ev>>
    ELSE <<>>

\* Observer of the brake: the TICTACs dispatched while braking.
TicsFreinSuivant(avant, apres, ev, k) ==
    IF apres \notin Freins THEN 0
    ELSE IF avant \notin Freins THEN 0
    ELSE IF ev = TICTAC THEN k + 1
    ELSE k

\* The machine's state with the outputs and the observers, as a record.
Courant ==
    [etat |-> etat, pas |-> pas, CCPR3L |-> CCPR3L, PORTA |-> PORTA,
     appels |-> <<>>, journal |-> journal, pasFrein |-> pasFrein,
     ordre |-> ordre, ticsFrein |-> ticsFrein]

\* One call machine(ev) from m: the set of results (one, unless a table is
\* read out of bounds).
machine(m, ev) ==
    LET t == Transition(m.etat, m.pas, ev) IN
    {[etat |-> t.etat, pas |-> t.pas, CCPR3L |-> s.CCPR3L, PORTA |-> s.PORTA,
      appels |-> m.appels \o t.appel,
      journal |-> DeuxDerniers(m.journal \o t.appel),
      pasFrein |-> PasFreinSuivant(m.etat, t.etat, m.pas, m.pasFrein),
      ordre |-> OrdreSuivant(m.etat, ev, m.ordre),
      ticsFrein |-> TicsFreinSuivant(m.etat, t.etat, ev, m.ticsFrein)] :
        s \in Sorties(t.appel, m.CCPR3L, m.PORTA)}

Installe(m) ==
    /\ etat' = m.etat
    /\ pas' = m.pas
    /\ CCPR3L' = m.CCPR3L
    /\ PORTA' = m.PORTA
    /\ appels' = m.appels
    /\ journal' = m.journal
    /\ pasFrein' = m.pasFrein
    /\ ordre' = m.ordre
    /\ ticsFrein' = m.ticsFrein

(***************************************************************************)
(* The program: the tail of main() and the interrupts.                     *)
(***************************************************************************)
\* CCPR3L is not written before the parking: its reset value is unknown.
CCPR3LReset == {0, 255}

\* After INTCONbits.GIEL = 0 (line 284): PORTA = 9, the statics at their
\* initialisers, the interrupts enabled.
Init ==
    /\ etat = ARRET
    /\ pas = 0
    /\ n = 0
    /\ CCPR3L \in CCPR3LReset
    /\ PORTA = 9
    /\ TMR2IF = FALSE
    /\ INT2IF = FALSE
    /\ INT1IF = FALSE
    /\ pcMain = "gieh"
    /\ pcCom = <<>>
    /\ evts = <<>>
    /\ appels = <<>>
    /\ journal = <<>>
    /\ pasFrein = -1
    /\ ordre = <<>>
    /\ ticsFrein = 0
    /\ gieh = TRUE
    /\ pile = <<>>
    /\ tirs = 0
    /\ fenetre = <<>>
    /\ nbTics = 0
    /\ nbAppels = 0

\* main(): commutationStationnement(0), the write of CCPR3L.
MainCCPR3L ==
    /\ pcMain = "gieh"
    /\ pile = <<>>
    /\ CCPR3L' \in ccpr3lStationnement(0)
    /\ pcMain' = "porta"
    /\ UNCHANGED <<etat, pas, n, PORTA, TMR2IF, INT2IF, INT1IF, pcCom, evts,
                   appels, journal, pasFrein, ordre, ticsFrein, gieh, pile,
                   tirs, fenetre, nbTics, nbAppels>>

\* main(): commutationStationnement(0), the write of PORTA; then while(1).
MainPORTA ==
    /\ pcMain = "porta"
    /\ pile = <<>>
    /\ PORTA' \in portaStationnement(0)
    /\ pcMain' = "dodo"
    /\ UNCHANGED <<etat, pas, n, CCPR3L, TMR2IF, INT2IF, INT1IF, pcCom, evts,
                   appels, journal, pasFrein, ordre, ticsFrein, gieh, pile,
                   tirs, fenetre, nbTics, nbAppels>>

\* The hardware raises an interrupt flag (a flag already raised stays raised).
\* TMR2 is periodic: only MaxTirsDemarrage periods fit in main()'s last lines.
TMR2 ==
    /\ ~TMR2IF
    /\ pcMain = "dodo" \/ tirs < MaxTirsDemarrage
    /\ TMR2IF' = TRUE
    /\ UNCHANGED <<etat, pas, n, CCPR3L, PORTA, INT2IF, INT1IF, pcMain, pcCom,
                   evts, appels, journal, pasFrein, ordre, ticsFrein, gieh, pile,
                   tirs, fenetre, nbTics, nbAppels>>

INT2 ==
    /\ ~INT2IF
    /\ INT2IF' = TRUE
    /\ UNCHANGED <<etat, pas, n, CCPR3L, PORTA, TMR2IF, INT1IF, pcMain, pcCom,
                   evts, appels, journal, pasFrein, ordre, ticsFrein, gieh, pile,
                   tirs, fenetre, nbTics, nbAppels>>

INT1 ==
    /\ ~INT1IF
    /\ INT1IF' = TRUE
    /\ UNCHANGED <<etat, pas, n, CCPR3L, PORTA, TMR2IF, INT2IF, pcMain, pcCom,
                   evts, appels, journal, pasFrein, ordre, ticsFrein, gieh, pile,
                   tirs, fenetre, nbTics, nbAppels>>

\* if (n == 0) machine(TICTAC);
DoitTictacDernier(c) == c = 25

DoitTictac(c) == c = 0

\* n++; if (n > 25) n = 0;
CompteSuivant27(c) == IF c + 1 > 26 THEN 0 ELSE c + 1

CompteSuivant(c) == IF c + 1 > 25 THEN 0 ELSE c + 1

FenetreSuivante(f, tic) ==
    LET g == Append(f, tic) IN
    IF Len(g) <= 27 THEN g ELSE SubSeq(g, Len(g) - 26, Len(g))

interruptionsHPDirectionsDAbord ==
    /\ TMR2IF \/ INT2IF \/ INT1IF
    /\ LET tic == TMR2IF /\ DoitTictac(n)
           S1 == IF INT2IF THEN machine(Courant, AVANCE) ELSE {Courant}
           S2 == IF INT1IF THEN UNION {machine(m, RECULE) : m \in S1} ELSE S1
           S3 == IF tic THEN UNION {machine(m, TICTAC) : m \in S2} ELSE S2
       IN /\ \E m \in S3 : Installe(m)
          /\ n' = IF TMR2IF THEN CompteSuivant(n) ELSE n
          /\ evts' = (IF INT2IF THEN <<AVANCE>> ELSE <<>>)
                       \o (IF INT1IF THEN <<RECULE>> ELSE <<>>)
                       \o (IF tic THEN <<TICTAC>> ELSE <<>>)
          /\ tirs' = IF TMR2IF /\ tirs < MaxTirs THEN tirs + 1 ELSE tirs
          /\ fenetre' = IF TMR2IF THEN FenetreSuivante(fenetre, tic) ELSE fenetre
    /\ TMR2IF' = FALSE
    /\ INT2IF' = FALSE
    /\ INT1IF' = FALSE
    /\ UNCHANGED <<pcMain, pcCom, gieh, pile, nbTics, nbAppels>>

\* interruptionsHP(): the whole handler.  The three sources are of the high
\* priority class and share this handler, which nothing preempts.
interruptionsHP ==
    /\ TMR2IF \/ INT2IF \/ INT1IF
    /\ LET tic == TMR2IF /\ DoitTictac(n)
           S1 == IF tic THEN machine(Courant, TICTAC) ELSE {Courant}
           S2 == IF INT2IF THEN UNION {machine(m, AVANCE) : m \in S1} ELSE S1
           S3 == IF INT1IF THEN UNION {machine(m, RECULE) : m \in S2} ELSE S2
       IN /\ \E m \in S3 : Installe(m)
          /\ n' = IF TMR2IF THEN CompteSuivant(n) ELSE n
          /\ evts' = (IF tic THEN <<TICTAC>> ELSE <<>>)
                       \o (IF INT2IF THEN <<AVANCE>> ELSE <<>>)
                       \o (IF INT1IF THEN <<RECULE>> ELSE <<>>)
          /\ tirs' = IF TMR2IF /\ tirs < MaxTirs THEN tirs + 1 ELSE tirs
          /\ fenetre' = IF TMR2IF THEN FenetreSuivante(fenetre, tic) ELSE fenetre
    /\ TMR2IF' = FALSE
    /\ INT2IF' = FALSE
    /\ INT1IF' = FALSE
    /\ UNCHANGED <<pcMain, pcCom, gieh, pile, nbTics, nbAppels>>

Next == MainCCPR3L \/ MainPORTA \/ TMR2 \/ INT2 \/ INT1 \/ interruptionsHP

Spec == Init /\ [][Next]_vars

(***************************************************************************)
(* The interrupt logic, with the handler one step per if-statement and     *)
(* main() running only while no handler is in progress.  The configuration *)
(* is the one main() sets.  With IPEN = 1 a pending, enabled source of the *)
(* high class interrupts when GIEH is set; the hardware clears GIEH on     *)
(* entry and sets it again on return.  Sources of the low class need GIEL, *)
(* which main() clears: they are never serviced.                           *)
(***************************************************************************)
\* PIE1bits.TMR2IE = 1;
TMR2IE == 1

\* IPR1bits.TMR2IP = 1;
TMR2IP == 1

\* INTCON3bits.INT2IE = 1;
INT2IE == 1

\* INTCON3bits.INT2IP = 1;
INT2IP == 1

\* INTCON3bits.INT1IE = 1;
INT1IE == 1

\* INTCON3bits.INT1IP = 1;
INT1IP == 1

\* RCONbits.IPEN = 1;
IPEN == 1

\* INTCONbits.GIEL = 0;
GIEL == 0

\* A source of the high class asks for the handler.
DemandeHaute ==
    \/ TMR2IF /\ TMR2IE = 1 /\ (IPEN = 0 \/ TMR2IP = 1)
    \/ INT2IF /\ INT2IE = 1 /\ (IPEN = 0 \/ INT2IP = 1)
    \/ INT1IF /\ INT1IE = 1 /\ (IPEN = 0 \/ INT1IP = 1)

Sommet == pile[Len(pile)]

Avance1(pos) == [pile EXCEPT ![Len(pile)] = pos]

\* Entry of interruptionsHP() at the high-priority vector.
Entree ==
    /\ gieh
    /\ DemandeHaute
    /\ gieh' = FALSE
    /\ pile' = Append(pile, "tmr2")
    /\ UNCHANGED <<etat, pas, n, CCPR3L, PORTA, TMR2IF, INT2IF, INT1IF, pcMain,
                   pcCom, evts, appels, journal, pasFrein, ordre, ticsFrein,
                   tirs, fenetre, nbTics, nbAppels>>

\* if (PIR1bits.TMR2IF) { ... }
HPTmr2AvecGIEH ==
    /\ pile # <<>>
    /\ Sommet = "tmr2"
    /\ LET tic == TMR2IF /\ DoitTictac(n)
           S1 == IF tic THEN machine(Courant, TICTAC) ELSE {Courant}
       IN /\ \E m \in S1 : Installe(m)
          /\ n' = IF TMR2IF THEN CompteSuivant(n) ELSE n
          /\ evts' = IF tic THEN <<TICTAC>> ELSE <<>>
          /\ tirs' = IF TMR2IF /\ tirs < MaxTirs THEN tirs + 1 ELSE tirs
          /\ fenetre' = IF TMR2IF THEN FenetreSuivante(fenetre, tic) ELSE fenetre
    /\ TMR2IF' = FALSE
    /\ gieh' = TRUE
    /\ pile' = Avance1("int2")
    /\ UNCHANGED <<INT2IF, INT1IF, pcMain, pcCom, nbTics, nbAppels>>

HPTmr2 ==
    /\ pile # <<>>
    /\ Sommet = "tmr2"
    /\ LET tic == TMR2IF /\ DoitTictac(n)
           S1 == IF tic THEN machine(Courant, TICTAC) ELSE {Courant}
       IN /\ \E m \in S1 : Installe(m)
          /\ n' = IF TMR2IF THEN CompteSuivant(n) ELSE n
          /\ evts' = IF tic THEN <<TICTAC>> ELSE <<>>
          /\ tirs' = IF TMR2IF /\ tirs < MaxTirs THEN tirs + 1 ELSE tirs
          /\ fenetre' = IF TMR2IF THEN FenetreSuivante(fenetre, tic) ELSE fenetre
    /\ TMR2IF' = FALSE
    /\ pile' = Avance1("int2")
    /\ UNCHANGED <<INT2IF, INT1IF, pcMain, pcCom, gieh, nbTics, nbAppels>>

\* if (INTCON3bits.INT2IF) { ... }
HPInt2 ==
    /\ pile # <<>>
    /\ Sommet = "int2"
    /\ LET S1 == IF INT2IF THEN machine(Courant, AVANCE) ELSE {Courant}
       IN /\ \E m \in S1 : Installe(m)
          /\ evts' = IF INT2IF THEN <<AVANCE>> ELSE <<>>
    /\ INT2IF' = FALSE
    /\ pile' = Avance1("int1")
    /\ UNCHANGED <<n, TMR2IF, INT1IF, pcMain, pcCom, gieh, tirs, fenetre,
                   nbTics, nbAppels>>

\* if (INTCON3bits.INT1IF) { ... }
HPInt1 ==
    /\ pile # <<>>
    /\ Sommet = "int1"
    /\ LET S1 == IF INT1IF THEN machine(Courant, RECULE) ELSE {Courant}
       IN /\ \E m \in S1 : Installe(m)
          /\ evts' = IF INT1IF THEN <<RECULE>> ELSE <<>>
    /\ INT1IF' = FALSE
    /\ pile' = Avance1("fin")
    /\ UNCHANGED <<n, TMR2IF, INT2IF, pcMain, pcCom, gieh, tirs, fenetre,
                   nbTics, nbAppels>>

\* Return from the handler: GIEH is set again.
Retour ==
    /\ pile # <<>>
    /\ Sommet = "fin"
    /\ pile' = SubSeq(pile, 1, Len(pile) - 1)
    /\ gieh' = TRUE
    /\ UNCHANGED <<etat, pas, n, CCPR3L, PORTA, TMR2IF, INT2IF, INT1IF, pcMain,
                   pcCom, evts, appels, journal, pasFrein, ordre, ticsFrein,
                   tirs, fenetre, nbTics, nbAppels>>

NextPreemption ==
    \/ MainCCPR3L \/ MainPORTA \/ TMR2 \/ INT2 \/ INT1
    \/ Entree \/ HPTmr2 \/ HPInt2 \/ HPInt1 \/ Retour

SpecPreemption == Init /\ [][NextPreemption]_vars

(***************************************************************************)
(* machine() alone, under every sequence of events.  It starts where the   *)
(* program is once main() has parked the motor and no interrupt has come.  *)
(***************************************************************************)
InitMachine ==
    /\ etat = ARRET
    /\ pas = 0
    /\ n = 0
    /\ CCPR3L = 16
    /\ PORTA = 1
    /\ TMR2IF = FALSE
    /\ INT2IF = FALSE
    /\ INT1IF = FALSE
    /\ pcMain = "dodo"
    /\ pcCom = <<>>
    /\ evts = <<>>
    /\ appels = <<>>
    /\ journal = <<>>
    /\ pasFrein = -1
    /\ ordre = <<>>
    /\ ticsFrein = 0
    /\ gieh = TRUE
    /\ pile = <<>>
    /\ tirs = 0
    /\ fenetre = <<>>
    /\ nbTics = 0
    /\ nbAppels = 0

\* One call machine(ev), with its outputs and the observers of the machine.
Appelle(ev) ==
    /\ \E m \in machine(Courant, ev) : Installe(m)
    /\ evts' = <<ev>>
    /\ UNCHANGED <<n, TMR2IF, INT2IF, INT1IF, pcMain, gieh, pile, tirs, fenetre>>

Dispatche(ev) ==
    /\ pcCom = <<>>
    /\ Appelle(ev)
    /\ UNCHANGED <<pcCom, nbTics, nbAppels>>

Avance == Dispatche(AVANCE)

Recule == Dispatche(RECULE)

Arrete == Dispatche(ARRETE)

Tictac == Dispatche(TICTAC)

NextMachine == Avance \/ Recule \/ Arrete \/ Tictac

SpecMachine == InitMachine /\ [][NextMachine]_vars

\* machine() with the TICTACs never withheld for ever: TMR2 is a free-running
\* periodic timer, so TICTAC keeps being dispatched.
SpecMachineEquitable == InitMachine /\ [][NextMachine]_vars /\ WF_vars(Tictac)

(***************************************************************************)
(* The end-to-end scenario: AVANCE once, then TICTACs and nothing else,    *)
(* with the events and the commutation calls counted.                      *)
(***************************************************************************)
ScenAvance ==
    /\ evts = <<>>
    /\ Dispatche(AVANCE)

ScenTictac ==
    /\ evts # <<>>
    /\ nbTics < MaxTics
    /\ pcCom = <<>>
    /\ Appelle(TICTAC)
    /\ nbTics' = nbTics + 1
    /\ nbAppels' = nbAppels + Len(appels')
    /\ UNCHANGED pcCom

NextScenario == ScenAvance \/ ScenTictac

SpecScenario == InitMachine /\ [][NextScenario]_vars

(***************************************************************************)
(* The commutation routines alone, called with every position of 0..31.    *)
(* appels and journal record the calls made here.                          *)
(***************************************************************************)
AppelStationnement ==
    /\ \E p \in 0..31 :
          /\ \E s \in commutationStationnement(p) :
                CCPR3L' = s.CCPR3L /\ PORTA' = s.PORTA
          /\ appels' = Stationnement(p)
          /\ journal' = DeuxDerniers(journal \o Stationnement(p))
    /\ UNCHANGED <<etat, pas, n, TMR2IF, INT2IF, INT1IF, pcMain, pcCom, evts,
                   pasFrein, ordre, ticsFrein, gieh, pile,
                   tirs, fenetre, nbTics, nbAppels>>

AppelDeplacement ==
    /\ \E p \in 0..31 :
          /\ \E s \in commutationDeplacement(p) :
                CCPR3L' = s.CCPR3L /\ PORTA' = s.PORTA
          /\ appels' = Deplacement(p)
          /\ journal' = DeuxDerniers(journal \o Deplacement(p))
    /\ UNCHANGED <<etat, pas, n, TMR2IF, INT2IF, INT1IF, pcMain, pcCom, evts,
                   pasFrein, ordre, ticsFrein, gieh, pile,
                   tirs, fenetre, nbTics, nbAppels>>

NextCommutation == AppelStationnement \/ AppelDeplacement

SpecCommutation == InitMachine /\ [][NextCommutation]_vars

(***************************************************************************)
(* machine() with the two register writes of a commutation as two steps:   *)
(* the routines write CCPR3L first and PORTA second.                       *)
(***************************************************************************)
\* A call of machine() that makes no commutation call.
RegSansAppel ==
    /\ \E ev \in Evenement :
          /\ Transition(etat, pas, ev).appel = <<>>
          /\ Dispatche(ev)

\* A call of machine() that commutates, up to the write of CCPR3L.
RegCCPR3L ==
    /\ pcCom = <<>>
    /\ \E ev \in Evenement :
          /\ Transition(etat, pas, ev).appel # <<>>
          /\ \E m \in machine(Courant, ev) : CCPR3L' = m.CCPR3L
          /\ pcCom' = <<ev>>
    /\ UNCHANGED <<etat, pas, n, PORTA, TMR2IF, INT2IF, INT1IF, pcMain, evts,
                   appels, journal, pasFrein, ordre, ticsFrein, gieh, pile,
                   tirs, fenetre, nbTics, nbAppels>>

\* The rest of that call: the write of PORTA, then pas and etat.
RegPORTA ==
    /\ pcCom # <<>>
    /\ \E m \in machine(Courant, pcCom[1]) :
          /\ m.CCPR3L = CCPR3L
          /\ Installe(m)
    /\ evts' = pcCom
    /\ pcCom' = <<>>
    /\ UNCHANGED <<n, TMR2IF, INT2IF, INT1IF, pcMain, gieh, pile, tirs, fenetre,
                   nbTics, nbAppels>>

NextRegistres == RegSansAppel \/ RegCCPR3L \/ RegPORTA

SpecRegistres == InitMachine /\ [][NextRegistres]_vars

(***************************************************************************)
(* Properties of machine() (SpecMachine).                                  *)
(***************************************************************************)

\* C1: whenever the motor is stopped (ARRET) the position is one of 0, 8, 16,
\* 24, and machine() calls commutationStationnement only with such a position.
ArretSurPasEntier ==
    /\ etat = ARRET => pas \in {0, 8, 16, 24}
    /\ \A i \in 1..Len(appels) :
          appels[i].fn = "commutationStationnement"
              => appels[i].pas \in {0, 8, 16, 24}

\* C1 witness: the motor has just been parked on step 16 by a brake.
ArretSurPasEntierTemoin ==
    /\ etat = ARRET
    /\ pas = 16
    /\ evts = <<TICTAC>>
    /\ appels = <<[fn |-> "commutationStationnement", pas |-> 16]>>

\* C2: after every call of machine() the position is in 0..31; a call either
\* leaves it, or steps it forward by one (31 to 0) in the forward states, or
\* steps it backward by one (0 to 31) in the backward states; a TICTAC while
\* running always steps.
PasModulo32 ==
    /\ [](pas \in 0..31)
    /\ [][/\ \/ pas' = pas
             \/ /\ etat \in {MARCHE_AVANT, FREIN_AVANT}
                /\ pas' = IF pas = 31 THEN 0 ELSE pas + 1
             \/ /\ etat \in {MARCHE_ARRIERE, FREIN_ARRIERE}
                /\ pas' = IF pas = 0 THEN 31 ELSE pas - 1
          /\ (etat = MARCHE_AVANT /\ evts' = <<TICTAC>>)
                => pas' = IF pas = 31 THEN 0 ELSE pas + 1
          /\ (etat = MARCHE_ARRIERE /\ evts' = <<TICTAC>>)
                => pas' = IF pas = 0 THEN 31 ELSE pas - 1]_vars

\* C2 witness: a backward step has just been taken from position 0 to 31.
PasModulo32Temoin ==
    /\ etat = MARCHE_ARRIERE
    /\ pas = 31
    /\ appels = <<[fn |-> "commutationDeplacement", pas |-> 0]>>

\* C3: in ARRET, AVANCE leads to MARCHE_AVANT and RECULE to MARCHE_ARRIERE
\* with the position and the outputs untouched; ARRETE and TICTAC change
\* nothing at all.
ArretEvenements ==
    [][etat = ARRET =>
        /\ pas' = pas /\ CCPR3L' = CCPR3L /\ PORTA' = PORTA /\ appels' = <<>>
        /\ evts' = <<AVANCE>> => etat' = MARCHE_AVANT
        /\ evts' = <<RECULE>> => etat' = MARCHE_ARRIERE
        /\ evts' \in {<<ARRETE>>, <<TICTAC>>} => etat' = ARRET]_vars

\* C3 witness: ARRETE has been dispatched while stopped on step 8.
ArretEvenementsTemoin ==
    /\ etat = ARRET
    /\ pas = 8
    /\ evts = <<ARRETE>>

\* C4: from MARCHE_AVANT, RECULE or ARRETE leads to FREIN_AVANT at once with
\* the position unchanged; in FREIN_AVANT a TICTAC off a full step applies the
\* moving commutation and advances by one (mod 32); a TICTAC on a full step
\* applies the parked commutation, keeps the position and stops, so the motor
\* stops on the smallest multiple of 8 that is >= the position at which the
\* brake began (mod 32).
FreinAvantArret ==
    [][/\ (etat = MARCHE_AVANT /\ evts' \in {<<RECULE>>, <<ARRETE>>})
            => /\ etat' = FREIN_AVANT
               /\ pas' = pas
               /\ pasFrein' = pas
               /\ appels' = <<>>
       /\ (etat = FREIN_AVANT /\ evts' = <<TICTAC>> /\ pas \notin {0, 8, 16, 24})
            => /\ etat' = FREIN_AVANT
               /\ pas' = (pas + 1) % 32
               /\ appels' = <<[fn |-> "commutationDeplacement", pas |-> pas]>>
       /\ (etat = FREIN_AVANT /\ evts' = <<TICTAC>> /\ pas \in {0, 8, 16, 24})
            => /\ etat' = ARRET
               /\ pas' = pas
               /\ appels' = <<[fn |-> "commutationStationnement", pas |-> pas]>>
               /\ pas' = (((pasFrein + 7) \div 8) * 8) % 32]_vars

\* C4 witness: a forward brake begun at 27 has just stopped the motor on 0.
FreinAvantArretTemoin ==
    /\ etat = ARRET
    /\ pasFrein = 27
    /\ pas = 0
    /\ evts = <<TICTAC>>
    /\ appels = <<[fn |-> "commutationStationnement", pas |-> 0]>>

\* C5: from MARCHE_ARRIERE, AVANCE or ARRETE leads to FREIN_ARRIERE at once
\* with the position unchanged; in FREIN_ARRIERE a TICTAC off a full step
\* applies the moving commutation and retreats by one (mod 32); a TICTAC on a
\* full step applies the parked commutation, keeps the position and stops, so
\* the motor stops on the largest multiple of 8 that is <= the position at
\* which the brake began.
FreinArriereArret ==
    [][/\ (etat = MARCHE_ARRIERE /\ evts' \in {<<AVANCE>>, <<ARRETE>>})
            => /\ etat' = FREIN_ARRIERE
               /\ pas' = pas
               /\ pasFrein' = pas
               /\ appels' = <<>>
       /\ (etat = FREIN_ARRIERE /\ evts' = <<TICTAC>> /\ pas \notin {0, 8, 16, 24})
            => /\ etat' = FREIN_ARRIERE
               /\ pas' = (pas + 31) % 32
               /\ appels' = <<[fn |-> "commutationDeplacement", pas |-> pas]>>
       /\ (etat = FREIN_ARRIERE /\ evts' = <<TICTAC>> /\ pas \in {0, 8, 16, 24})
            => /\ etat' = ARRET
               /\ pas' = pas
               /\ appels' = <<[fn |-> "commutationStationnement", pas |-> pas]>>
               /\ pas' = (pasFrein \div 8) * 8]_vars

\* C5 witness: a backward brake begun at 27 has just stopped the motor on 24.
FreinArriereArretTemoin ==
    /\ etat = ARRET
    /\ pasFrein = 27
    /\ pas = 24
    /\ evts = <<TICTAC>>
    /\ appels = <<[fn |-> "commutationStationnement", pas |-> 24]>>

(***************************************************************************)
(* Properties of the step clock (Spec).                                    *)
(***************************************************************************)

\* C6: the divider counter is in 0..25 between two runs of the handler; in
\* every window of 26 consecutive TMR2 interrupts handled exactly one
\* dispatched TICTAC; an interrupt that dispatched TICTAC comes exactly 26
\* interrupts after the previous one that did.
DiviseurPar26 ==
    /\ n \in 0..25
    /\ \A k \in 0..1 :
          Len(fenetre) >= 26 + k =>
              Cardinality({i \in (Len(fenetre) - 25 - k)..(Len(fenetre) - k) :
                              fenetre[i]}) = 1
    /\ (Len(fenetre) = 27 /\ fenetre[27]) =>
          /\ fenetre[1]
          /\ \A i \in 2..26 : ~fenetre[i]

\* C6 witness: 27 interrupts or more were handled and the last dispatched TICTAC.
DiviseurPar26Temoin ==
    /\ Len(fenetre) = 27
    /\ fenetre[27]
    /\ evts = <<TICTAC>>

\* C7 as stated: from program start, interrupts 1 to 25 dispatch no TICTAC
\* and interrupt 26 dispatches one and resets the divider counter.
PremierTicAuTir26 ==
    /\ tirs \in 1..25 => ~fenetre[Len(fenetre)]
    /\ tirs = 26 => fenetre[Len(fenetre)] /\ n = 0

\* C7 amended: from program start, interrupt 1 dispatches TICTAC, interrupts
\* 2 to 26 dispatch none, interrupt 26 resets the divider counter to 0 and
\* interrupt 27 dispatches the next TICTAC.
PremierTicAuTir1 ==
    /\ tirs = 1 => fenetre[Len(fenetre)]
    /\ tirs \in 2..26 => ~fenetre[Len(fenetre)]
    /\ tirs = 26 => n = 0
    /\ tirs = 27 => fenetre[Len(fenetre)]

\* C7 witness: the 27th interrupt has been handled and has dispatched TICTAC.
PremierTicAuTir1Temoin ==
    /\ tirs = 27
    /\ fenetre[Len(fenetre)]
    /\ n = 1

(***************************************************************************)
(* The end-to-end scenario (SpecScenario).                                 *)
(***************************************************************************)

\* C8: after AVANCE and k TICTACs from ARRET at position 0, the state is
\* MARCHE_AVANT, the position is k mod 32, k commutation calls were made,
\* the k-th a moving commutation of position (k-1) mod 32; for k = 40 the
\* position is 8 after 40 calls.
AvancePuisTics ==
    /\ evts = <<>> => etat = ARRET /\ pas = 0 /\ nbTics = 0 /\ nbAppels = 0
    /\ evts # <<>> =>
          /\ etat = MARCHE_AVANT
          /\ pas = nbTics % 32
          /\ nbAppels = nbTics
          /\ nbTics = 0 => appels = <<>>
          /\ nbTics >= 1 =>
                appels = <<[fn |-> "commutationDeplacement",
                            pas |-> (nbTics - 1) % 32]>>
          /\ nbTics = 40 => pas = 8 /\ nbAppels = 40

\* C8 witness: 40 TICTACs after AVANCE.
AvancePuisTicsTemoin ==
    /\ etat = MARCHE_AVANT
    /\ nbTics = 40
    /\ nbAppels = 40
    /\ pas = 8

(***************************************************************************)
(* The commutation tables (SpecCommutation).                               *)
(***************************************************************************)

\* C9: for every position p of 0..31 the moving commutation leaves pattern
\* {5,6,10,9}[p >> 3] and amplitude cos[p & 0x0F], the parked commutation
\* pattern {1,4,2,8}[p >> 3] and amplitude 16; both reads are inside their
\* tables (a read outside would leave any byte).
TablesDeCommutation ==
    \A i \in 1..Len(appels) :
        LET p == appels[i].pas IN
        /\ p \in 0..31
        /\ appels[i].fn = "commutationDeplacement" =>
              /\ PORTA = <<5, 6, 10, 9>>[(p \div 8) + 1]
              /\ CCPR3L = <<32, 31, 27, 22, 16, 10, 5, 1,
                            0, 1, 5, 10, 16, 22, 27, 31>>[(p % 16) + 1]
        /\ appels[i].fn = "commutationStationnement" =>
              /\ PORTA = <<1, 4, 2, 8>>[(p \div 8) + 1]
              /\ CCPR3L = 16

\* C9 witness: the moving commutation of position 31 has been applied.
TablesDeCommutationTemoin ==
    /\ appels = <<[fn |-> "commutationDeplacement", pas |-> 31]>>
    /\ PORTA = 9
    /\ CCPR3L = 31

(***************************************************************************)
(* The outputs at the granularity of register writes (SpecRegistres).      *)
(***************************************************************************)

\* C10: at every moment the two outputs are the amplitude and the pattern of
\* one and the same commutation: the pair (CCPR3L, PORTA) is the moving or the
\* parked commutation of some position.
SortiesEnsemble ==
    \E p \in 0..31 :
        \/ /\ PORTA = <<5, 6, 10, 9>>[(p \div 8) + 1]
           /\ CCPR3L = <<32, 31, 27, 22, 16, 10, 5, 1,
                         0, 1, 5, 10, 16, 22, 27, 31>>[(p % 16) + 1]
        \/ /\ PORTA = <<1, 4, 2, 8>>[(p \div 8) + 1]
           /\ CCPR3L = 16

(***************************************************************************)
(* Reversal, frame, brake (SpecMachine, SpecMachineEquitable).             *)
(***************************************************************************)

\* C11 as stated: while the opposite-direction command received while running
\* stands (no further AVANCE, RECULE or ARRETE), the machine is either still
\* braking in the original direction or running in the commanded direction.
OrdreInversePrendEffet ==
    /\ ordre = <<RECULE>> => etat \in {FREIN_AVANT, MARCHE_ARRIERE}
    /\ ordre = <<AVANCE>> => etat \in {FREIN_ARRIERE, MARCHE_AVANT}

\* C11 amended: while that command stands, the machine is either braking in
\* the original direction, between the position where the brake began and the
\* next multiple of 8 in that direction, or stopped (ARRET) on that multiple
\* of 8, where it stays under further TICTACs; it never runs in the commanded
\* direction unless a further directional command is dispatched.
OrdreInverseArrete ==
    /\ ordre = <<RECULE>> =>
          /\ pasFrein \in 0..31
          /\ \/ /\ etat = FREIN_AVANT
                /\ (pas - pasFrein) % 32 <= ((pasFrein + 7) \div 8) * 8 - pasFrein
             \/ /\ etat = ARRET
                /\ pas = (((pasFrein + 7) \div 8) * 8) % 32
    /\ ordre = <<AVANCE>> =>
          /\ pasFrein \in 0..31
          /\ \/ /\ etat = FREIN_ARRIERE
                /\ pas \in ((pasFrein \div 8) * 8)..pasFrein
             \/ /\ etat = ARRET
                /\ pas = (pasFrein \div 8) * 8

\* C11 witness: RECULE came while running forward at 11; the motor went on to
\* 16 and stopped there.
OrdreInverseArreteTemoin ==
    /\ ordre = <<RECULE>>
    /\ etat = ARRET
    /\ pasFrein = 11
    /\ pas = 16
    /\ evts = <<TICTAC>>

\* C12: AVANCE in MARCHE_AVANT, RECULE in MARCHE_ARRIERE, and AVANCE, RECULE
\* and ARRETE in FREIN_AVANT and FREIN_ARRIERE leave the state, the position
\* and both outputs as they are and make no commutation call; no event other
\* than TICTAC ever changes the position or writes the outputs.
EvenementsSansEffet ==
    [][/\ (\/ etat = MARCHE_AVANT /\ evts' = <<AVANCE>>
           \/ etat = MARCHE_ARRIERE /\ evts' = <<RECULE>>
           \/ etat \in {FREIN_AVANT, FREIN_ARRIERE}
                /\ evts' \in {<<AVANCE>>, <<RECULE>>, <<ARRETE>>})
            => /\ etat' = etat
               /\ pas' = pas
               /\ CCPR3L' = CCPR3L
               /\ PORTA' = PORTA
               /\ appels' = <<>>
       /\ evts' # <<TICTAC>>
            => /\ pas' = pas
               /\ CCPR3L' = CCPR3L
               /\ PORTA' = PORTA
               /\ appels' = <<>>]_vars

\* C12 witness: ARRETE has been dispatched in FREIN_AVANT, two TICTACs into
\* the brake.
EvenementsSansEffetTemoin ==
    /\ etat = FREIN_AVANT
    /\ evts = <<ARRETE>>
    /\ ticsFrein = 2

\* C13: a brake is never cancelled or postponed: while braking, AVANCE, RECULE
\* and ARRETE change neither the state nor the position; each TICTAC either
\* stops the motor or is one more step of the brake, a TICTAC on a multiple of
\* 8 stops it at once, at most 7 TICTACs leave the machine braking (the 8th
\* at the latest stops it), and with TICTACs kept coming ARRET is reached.
FreinIrrevocable ==
    /\ [](etat \in {FREIN_AVANT, FREIN_ARRIERE} => ticsFrein <= 7)
    /\ [][(etat \in {FREIN_AVANT, FREIN_ARRIERE}) =>
            (/\ etat' \in {etat, ARRET}
             /\ (evts' # <<TICTAC>>) =>
                   (etat' = etat /\ pas' = pas /\ ticsFrein' = ticsFrein)
             /\ (evts' = <<TICTAC>> /\ pas \in {0, 8, 16, 24}) => (etat' = ARRET)
             /\ (evts' = <<TICTAC>> /\ etat' = etat) =>
                   (ticsFrein' = ticsFrein + 1))]_vars
    /\ (etat \in {FREIN_AVANT, FREIN_ARRIERE}) ~> (etat = ARRET)

\* C13 witness: seven TICTACs into a forward brake, on step 16: the eighth
\* stops the motor.
FreinIrrevocableTemoin ==
    /\ etat = FREIN_AVANT
    /\ ticsFrein = 7
    /\ pas = 16

(***************************************************************************)
(* The interrupt handler (Spec).                                           *)
(***************************************************************************)

\* C14: a run of the handler dispatches its events in the order TICTAC (TMR2
\* due), AVANCE (INT2), RECULE (INT1); when a due TMR2 and a directional
\* interrupt are both pending at entry, the TICTAC acts on the state as it was
\* before the directional event: pending with INT2 in ARRET it does nothing
\* and the motor only starts; pending with the opposite command while running
\* it moves one more step and then the brake begins.
TicAvantDirection ==
    [][((TMR2IF /\ ~TMR2IF') \/ (INT2IF /\ ~INT2IF') \/ (INT1IF /\ ~INT1IF')) =>
        (/\ evts' = (IF TMR2IF /\ n = 0 THEN <<TICTAC>> ELSE <<>>)
                      \o (IF INT2IF THEN <<AVANCE>> ELSE <<>>)
                      \o (IF INT1IF THEN <<RECULE>> ELSE <<>>)
         /\ (TMR2IF /\ n = 0 /\ INT2IF /\ ~INT1IF /\ etat = ARRET) =>
               (etat' = MARCHE_AVANT /\ pas' = pas /\ appels' = <<>>)
         /\ (TMR2IF /\ n = 0 /\ INT1IF /\ ~INT2IF /\ etat = ARRET) =>
               (etat' = MARCHE_ARRIERE /\ pas' = pas /\ appels' = <<>>)
         /\ (TMR2IF /\ n = 0 /\ INT1IF /\ ~INT2IF /\ etat = MARCHE_AVANT) =>
               (/\ etat' = FREIN_AVANT
                /\ pas' = (pas + 1) % 32
                /\ appels' = <<[fn |-> "commutationDeplacement", pas |-> pas]>>)
         /\ (TMR2IF /\ n = 0 /\ INT2IF /\ ~INT1IF /\ etat = MARCHE_ARRIERE) =>
               (/\ etat' = FREIN_ARRIERE
                /\ pas' = (pas + 31) % 32
                /\ appels' = <<[fn |-> "commutationDeplacement", pas |-> pas]>>))]_vars

\* C14 witness: a run of the handler has dispatched TICTAC then RECULE while
\* running forward on step 8: the motor moved on to 9 and brakes from there.
TicAvantDirectionTemoin ==
    /\ evts = <<TICTAC, RECULE>>
    /\ etat = FREIN_AVANT
    /\ pas = 9
    /\ pasFrein = 9
    /\ appels = <<[fn |-> "commutationDeplacement", pas |-> 8]>>

(***************************************************************************)
(* Interrupt configuration and preemption (SpecPreemption).                *)
(***************************************************************************)

\* C15: at most one activation of the handler is in progress at any time, so
\* no machine() call starts inside another and neither TMR2 nor INT1/INT2
\* preempts the handling of the other; etat and pas change only in a step of
\* the handler, never in main().
HandlerNonPreempte ==
    /\ [](Len(pile) <= 1)
    /\ [][(etat' # etat \/ pas' # pas \/ evts' # evts) =>
            (/\ Len(pile) = 1
             /\ Len(pile') = 1
             /\ pcMain' = pcMain
             /\ ~gieh)]_vars

\* C15 witness: INT1 was raised while the handler was past its TMR2 test and
\* handling INT2 with a TMR2 interrupt newly pending: the handler went on and
\* dispatched RECULE, alone in progress.
HandlerNonPreempteTemoin ==
    /\ Len(pile) = 1
    /\ pile[1] = "fin"
    /\ TMR2IF
    /\ evts = <<RECULE>>
    /\ etat = FREIN_AVANT

\* C16: once main() has configured the interrupts, TMR2 is in the high
\* priority class and INT1 and INT2 are in the low priority class.
TimerHautDirectionsBasses ==
    pcMain \in {"gieh", "porta", "dodo"} =>
        /\ IPEN = 1
        /\ TMR2IP = 1
        /\ INT2IP = 0
        /\ INT1IP = 0

(***************************************************************************)
(* Bridge patterns.                                                        *)
(***************************************************************************)
\* The number of bridge-select lines (bits 0 to 3) set in a value of PORTA.
NbLignes(x) == Cardinality({b \in 0..3 : (x \div (2 ^ b)) % 2 = 1})

\* C17 as stated: PORTA always holds a one-hot pattern, exactly one of bits
\* 0 to 3 set.
PatronsUnParmiQuatre == NbLignes(PORTA) = 1

\* C17 amended: PORTA only ever holds a value below 16 with one or two of
\* its bits 0 to 3 set.  A run of the handler whose last commutation call
\* is the parked one, and the parking of main(), leave a pattern with
\* exactly one line set; a run whose last call is the moving commutation
\* leaves a pattern with exactly two lines set, and so does start-up
\* (PORTA = 9) until the first commutation.
PatronsUnOuDeuxParmiQuatre ==
    /\ [](PORTA \in 1..15 /\ NbLignes(PORTA) \in {1, 2})
    /\ []((pcMain # "dodo" /\ journal = <<>>) => NbLignes(PORTA) = 2)
    /\ [][((TMR2IF \/ INT2IF \/ INT1IF) /\ ~TMR2IF' /\ ~INT2IF' /\ ~INT1IF'
             /\ appels' # <<>>) =>
            (NbLignes(PORTA') =
                IF appels'[Len(appels')].fn = "commutationStationnement"
                THEN 1 ELSE 2)]_vars
    /\ [][(pcMain = "porta" /\ pcMain' = "dodo") => NbLignes(PORTA') = 1]_vars

\* C17 witness: the moving commutation of microstep 17 has put the two-line
\* pattern 10 on PORTA, after main() parked the motor.
PatronsUnOuDeuxParmiQuatreTemoin ==
    /\ pcMain = "dodo"
    /\ etat = MARCHE_AVANT
    /\ appels = <<[fn |-> "commutationDeplacement", pas |-> 17]>>
    /\ PORTA = 10
    /\ NbLignes(PORTA) = 2

(***************************************************************************)
(* Continuity of the microsteps.                                           *)
(***************************************************************************)
\* C18: the positions passed to two consecutive commutation calls made by
\* machine(), moving or parked, are positions of the 32-microstep cycle and
\* differ by at most 1 modulo 32: no microstep is skipped.
AucunMicroPasSaute ==
    /\ \A i \in 1..Len(journal) : journal[i].pas \in 0..31
    /\ Len(journal) = 2 =>
          (journal[2].pas - journal[1].pas + 32) % 32 \in {0, 1, 31}

\* C18 witness: the motor ran forward, braked and parked on step 8, and has
\* restarted backward: the parked call on 8 is followed by the moving call
\* on 8.
AucunMicroPasSauteTemoin ==
    /\ etat = MARCHE_ARRIERE
    /\ pas = 7
    /\ evts = <<TICTAC>>
    /\ journal = <<[fn |-> "commutationStationnement", pas |-> 8],
                   [fn |-> "commutationDeplacement", pas |-> 8]>>

StationnementAvantEvenements ==
    pcMain # "dodo" =>
        /\ evts = <<>>
        /\ etat = ARRET
        /\ journal = <<>>

====
